---- MODULE Spec2Model ----
(***************************************************************************)
(* KodBox CalDAV server: the synchronized data cache (DataSyncService),    *)
(* the background refresh loop and the single asyncio event loop that      *)
(* create_app sets up, and the CalDAV request handlers that read the       *)
(* cache.                                                                  *)
(*                                                                         *)
(* Threads of the program and how they appear here:                        *)
(*   - the main thread runs create_app (initial sync, then                 *)
(*     start_background_sync) and only then app.run: no request is served  *)
(*     before create_app has returned;                                     *)
(*   - one event-loop thread (AsyncExecutor) runs every coroutine:         *)
(*     sync_all_data, sync_loop and the coroutines the handlers pass to    *)
(*     run_async.  A coroutine that never suspends holds that thread until *)
(*     it ends; sync_all_data suspends nowhere (requests.Session.post is a *)
(*     blocking call, the repositories' async methods contain no await     *)
(*     that suspends);                                                     *)
(*   - a Flask worker thread runs a handler; get_etag is called directly   *)
(*     on that thread and takes the cache lock itself.                     *)
(* Time is abstract: the 30 s of future.result(timeout=30) and of          *)
(* session.post(timeout=30) are not measured.                              *)
(***************************************************************************)
EXTENDS Integers, Sequences, FiniteSets, TLC

\* ------------------------------------------------------------------ bounds
MaxTasks == 2
MaxTime == 1
MaxClock == 1

\* ------------------------------------------------------------------ values
None == <<>>
Some(x) == <<x>>
IsSome(o) == o # None
Val(o) == o[1]

PIDs == {"P1", "P2"}
PidOrder == <<"P1", "P2">>
TaskId(i) == IF i = 1 THEN "T1" ELSE IF i = 2 THEN "T2" ELSE "T3"
TIDs == {TaskId(i) : i \in 1..MaxTasks}
OptTimes == {None} \cup {Some(t) : t \in 1..MaxTime}

\* Project.name comes from the upstream JSON unchecked: "str" is a text,
\* "nonstr" a JSON value icalendar cannot encode as a text property.
NameKinds == {"str", "nonstr"}

\* Task.description comes from the upstream JSON unchecked: "str" is a text,
\* "number" a JSON number, which the event builder cannot join into the
\* DESCRIPTION text.
DescKinds == {"str", "number"}

Task(tid, pid, m, d) ==
    [id |-> tid, project_id |-> pid, modified_at |-> m, description |-> d]
Project(pid, nm, m, ts) == [id |-> pid, name |-> nm, modified_at |-> m, tasks |-> ts]

\* The task lists and project lists get_all_projects can return: n tasks
\* T1..Tn per project, every modified_at of one fetch carrying the stamp the
\* upstream had at that moment, at most one project with an unencodable name,
\* the first task of each project with a description of kind d.
TasksOf(pid, n, m, d) ==
    [i \in 1..n |-> Task(TaskId(i), pid, m, IF i = 1 THEN d ELSE "str")]
ProjectLists ==
    { SelectSeq([i \in 1..2 |-> Project(PidOrder[i],
                                        IF PidOrder[i] = bad THEN "nonstr" ELSE "str",
                                        m, TasksOf(PidOrder[i], n, m, d))],
                LAMBDA p : p.id \in ps) :
        ps \in SUBSET PIDs, n \in 0..MaxTasks, m \in OptTimes,
        bad \in PIDs \cup {"none"}, d \in DescKinds }

\* What the upstream can answer to the POST of get_all_projects.
UpstreamBodies ==
    [code : BOOLEAN, has_data : BOOLEAN, projects : ProjectLists]

\* The bodies that carry data in which every project name and every task
\* description is a text.
TextBodies ==
    {b \in UpstreamBodies :
        /\ b.code /\ b.has_data
        /\ \A i \in 1..Len(b.projects) :
              /\ b.projects[i].name = "str"
              /\ \A j \in 1..Len(b.projects[i].tasks) :
                    b.projects[i].tasks[j].description = "str"}

\* ---------------------------------------------------------------- renderer
\* _create_event_from_task: an event carries what identifies the task version
\* it was built from; '\\n'.join(description_parts) raises TypeError for a
\* description that is no text, and the except clause returns None.
create_event_from_task(task, project) ==
    IF task.description # "str" THEN None
    ELSE Some([uid |-> task.id, last_modified |-> task.modified_at])

\* The events of the tasks whose event was built, in task order.
BuiltEvents(tasks, project) ==
    LET built == SelectSeq(tasks, LAMBDA t : IsSome(create_event_from_task(t, project)))
    IN  [i \in 1..Len(built) |-> Val(create_event_from_task(built[i], project))]

\* A render that gives up on the project when one event was not built.
get_calendar_data_all_or_nothing(project) ==
    IF project.name # "str"
       \/ \E i \in 1..Len(project.tasks) :
              ~IsSome(create_event_from_task(project.tasks[i], project))
    THEN [ok |-> FALSE]
    ELSE [ok |-> TRUE,
          text |-> [calname |-> project.id,
                    events |-> BuiltEvents(project.tasks, project)]]

\* CalendarRepository.get_calendar_data: cal.add('x-wr-calname', project.name)
\* raises for a name that is no text, and the except clause re-raises.
get_calendar_data(project) ==
    IF project.name # "str"
    THEN [ok |-> FALSE]
    ELSE [ok |-> TRUE,
          text |-> [calname |-> project.id,
                    events |-> BuiltEvents(project.tasks, project)]]

\* CalendarRepository.get_task_calendar_data: the calendar name is an f-string,
\* which formats any name; the event is added when it was built.
get_task_calendar_data(task, project) ==
    [calname |-> <<project.id, task.id>>,
     events |-> BuiltEvents(<<task>>, project)]

\* ------------------------------------------------------------------- dicts
EmptyDict == <<>>
DictSet(d, k, v) == [x \in (DOMAIN d) \cup {k} |-> IF x = k THEN v ELSE d[x]]

\* ------------------------------------------------------------ upstream fetch
\* KodBoxRepository.get_all_projects on a decoded response body.
kodbox_get_all_projects(body) ==
    IF ~body.code \/ ~body.has_data THEN <<>> ELSE body.projects

\* ------------------------------------------------- sync_all_data, the build
\* Lines 44-64: every fetched project is cached; its calendar text is cached
\* when get_calendar_data succeeds, at the first call or at the call repeated
\* in the except clause.
RECURSIVE BuildProjects(_, _)
BuildProjects(projects, acc) ==
    IF projects = <<>> THEN acc
    ELSE BuildProjects(Tail(projects), DictSet(acc, Head(projects).id, Head(projects)))

StoreCalendar(acc, project) ==
    LET first == get_calendar_data(project)
        again == get_calendar_data(project)
    IN  IF first.ok THEN DictSet(acc, project.id, first.text)
        ELSE IF again.ok THEN DictSet(acc, project.id, again.text)
        ELSE acc

RECURSIVE BuildCalendars(_, _)
BuildCalendars(projects, acc) ==
    IF projects = <<>> THEN acc
    ELSE BuildCalendars(Tail(projects), StoreCalendar(acc, Head(projects)))

\* ------------------------------------------------------------------ config
\* CalDAVConfig.username / password: the one configured pair.
ConfigUsername == "kodbox"
ConfigPassword == "calendar123"
Usernames == {ConfigUsername, "mallory"}
Passwords == {ConfigPassword, "guess"}

\* request.authorization: absent, or the pair of a Basic header.
Credentials == {None} \cup {Some([username |-> u, password |-> w]) :
                              u \in Usernames, w \in Passwords}

\* The Depth header: absent, a decimal integer (int accepts a sign), the word
\* infinity, or any other text.
MaxDepth == 1
DepthHeaders ==
    {[kind |-> "absent", n |-> 0], [kind |-> "infinity", n |-> 0],
     [kind |-> "text", n |-> 0]}
    \cup {[kind |-> "int", n |-> k] : k \in -1..MaxDepth}

\* Paths are sequences of segments; a file name x.ics is the two trailing
\* elements x, ".ics".
RootPath == <<>>
PrincipalsPath == <<"principals">>
PrincipalPath(u) == <<"principals", u>>
CalendarsPath == <<"calendars">>
CalendarPath(pid) == <<"calendars", pid>>
EventPath(pid, tid) == <<"calendars", pid, tid, ".ics">>
FullCalendarPath(pid) == <<"calendars", pid, "calendar", ".ics">>

\* request.data of a REPORT: empty, bytes that are no XML ("malformed"), a
\* document with some root element ("other", "query", "multiget"), or a
\* calendar-query document whose XML declaration names an encoding that
\* ET.fromstring rejects with ValueError or LookupError, such as gbk
\* ("encoding").  A calendar-multiget document carries hrefs, a calendar-query
\* document may carry filter elements.
MaxHrefs == 2
HrefChoices ==
    {EventPath("P1", "T1"), EventPath("P2", "T2"), CalendarPath("P1"),
     FullCalendarPath("P1")}
HrefLists == UNION {[1..n -> HrefChoices] : n \in 0..MaxHrefs}
Filters == {"none", "time-range", "text-match"}
NoBody == [kind |-> "empty", hrefs |-> <<>>, filter |-> "none"]
ReportBodies ==
    {[kind |-> k, hrefs |-> <<>>, filter |-> "none"] :
        k \in {"empty", "malformed", "encoding", "other"}}
    \cup {[kind |-> "query", hrefs |-> <<>>, filter |-> f] : f \in Filters}
    \cup {[kind |-> "multiget", hrefs |-> hs, filter |-> "none"] : hs \in HrefLists}

Request(mt, rt, pid, tid, cr, dh, bd) ==
    [method |-> mt, route |-> rt, project_id |-> pid, task_id |-> tid,
     auth |-> cr, depth |-> dh, body |-> bd]

NoDepth == [kind |-> "absent", n |-> 0]
NoRequest == Request("-", "-", "-", "-", None, NoDepth, NoBody)

\* The requests a client can send, one set per registered route.
Requests ==
    {Request("OPTIONS", "options", "-", "-", cr, NoDepth, NoBody) : cr \in Credentials}
    \cup {Request("GET", "health", "-", "-", cr, NoDepth, NoBody) : cr \in Credentials}
    \cup {Request("PROPFIND", rt, "-", "-", cr, dh, NoBody) :
            rt \in {"root", "principals", "principal", "calendars"},
            cr \in Credentials, dh \in DepthHeaders}
    \cup {Request("PROPFIND", "calendar", pid, "-", cr, dh, NoBody) :
            pid \in PIDs, cr \in Credentials, dh \in DepthHeaders}
    \cup {Request("REPORT", "report", pid, "-", cr, NoDepth, bd) :
            pid \in PIDs, cr \in Credentials, bd \in ReportBodies}
    \cup {Request("GET", "event", pid, tid, cr, NoDepth, NoBody) :
            pid \in PIDs, tid \in TIDs, cr \in Credentials}
    \cup {Request("GET", "full_calendar", pid, "-", cr, NoDepth, NoBody) :
            pid \in PIDs, cr \in Credentials}

\* The requests whose handlers read the cache, sent with the configured
\* credentials and a numeric Depth, for the collection of all calendars and
\* for one project.
CacheRequests ==
    {r \in Requests :
        /\ r.route \in {"calendars", "calendar", "event", "full_calendar"}
        /\ r.auth = Some([username |-> ConfigUsername, password |-> ConfigPassword])
        /\ r.method = "PROPFIND" => r.depth.kind = "int"
        /\ r.project_id \in {"-", "P1"}}

\* ------------------------------------------------------------ create_app helpers
\* A check that looks at the user name only.
check_auth_username_only(username, password) ==
    username = ConfigUsername

check_auth(username, password) ==
    username = ConfigUsername /\ password = ConfigPassword

\* The routes registered without @requires_auth.
OpenRoutes == {"options", "health"}

\* requires_auth.decorated: whether the wrapped handler is called.
Authorized(r) ==
    IsSome(r.auth) /\ check_auth(Val(r.auth).username, Val(r.auth).password)

\* parse_depth_header: the parsed depth as [inf, n]; float('inf') is inf.
parse_depth_header(dh) ==
    IF dh.kind = "infinity" THEN [inf |-> TRUE, n |-> 0]
    ELSE IF dh.kind = "int" THEN [inf |-> FALSE, n |-> dh.n]
    ELSE [inf |-> FALSE, n |-> 0]

\* A test that takes every depth but 0 as a request for the children.
DepthNotZero(d) == d.inf \/ d.n # 0

\* The handlers' test "depth > 0".
DepthPositive(d) == d.inf \/ d.n > 0

\* A response: status, the WWW-Authenticate header, the <response> elements
\* of a multistatus body, the text of a calendar body, the ETag header.
Response(st, wa, els, body, tag) ==
    [status |-> st, www_authenticate |-> wa, elements |-> els, body |-> body,
     etag |-> tag]

authenticate == Response(401, TRUE, <<>>, None, None)
create_xml_response(els) == Response(207, FALSE, els, None, None)
StatusOnly(st) == Response(st, FALSE, <<>>, None, None)
NoResponse == StatusOnly(0)

\* create_propfind_response: href and the version property (getctag of a
\* calendar collection, getetag of an event; none on a plain collection).
create_propfind_response(href, tag, data) ==
    [href |-> href, tag |-> tag, data |-> data]

\* ------------------------------------------------------------------- state
VARIABLES
    projects_cache,   \* DataSyncService._projects_cache
    calendars_cache,  \* DataSyncService._calendars_cache
    last_sync,        \* DataSyncService._last_sync (None or Some(instant))
    cache_lock,       \* owner of DataSyncService._cache_lock: "free" or "sync"
    now,              \* the wall clock
    phase,            \* create_app: "init", "startup" (initial sync awaited), "serving"
    loop_started,     \* whether start_background_sync has been called
    sync_pc,          \* position of the sync coroutine on the event loop
    last_fetch,       \* sync_all_data: how the upstream fetch of this call ended
    fetched,          \* sync_all_data: the list get_all_projects returned
    new_projects,     \* sync_all_data: local new_projects
    new_calendars,    \* sync_all_data: local new_calendars
    req,              \* the request the worker thread is handling
    rpc,              \* position of the worker thread in the handler
    rlist,            \* handler local: calendars / events / hrefs being walked
    ridx,             \* handler local: position of a REPORT loop in rlist
    racc,             \* handler local: the multistatus elements so far
    rdata,            \* handler local: calendar_data / event_data
    resp,             \* the response the handler returned
    rstale,           \* history: the cache was swapped while req was being handled
    etag_call,        \* the last direct call of CalDAVService.get_etag and its result
    event_call,       \* the last task given to _create_event_from_task and the result
    task_call,        \* the last data given to Task.from_kodbox_data and the result
    fetch_call        \* the last decoded body grouped by get_all_projects and the result

cacheVars == <<projects_cache, calendars_cache, last_sync>>
syncVars == <<phase, loop_started, sync_pc, last_fetch, fetched, new_projects,
              new_calendars>>
reqVars == <<req, rpc, rlist, ridx, racc, rdata, resp, rstale>>
callVars == <<etag_call, event_call, task_call, fetch_call>>
vars == <<projects_cache, calendars_cache, last_sync, cache_lock, now,
          phase, loop_started, sync_pc, last_fetch, fetched, new_projects,
          new_calendars,
          req, rpc, rlist, ridx, racc, rdata, resp, rstale,
          etag_call, event_call, task_call, fetch_call>>

Init ==
    /\ projects_cache = EmptyDict
    /\ calendars_cache = EmptyDict
    /\ last_sync = None
    /\ cache_lock = "free"
    /\ now = 0
    /\ phase = "init"
    /\ loop_started = FALSE
    /\ sync_pc = "none"
    /\ last_fetch = "none"
    /\ fetched = <<>>
    /\ new_projects = EmptyDict
    /\ new_calendars = EmptyDict
    /\ req = NoRequest
    /\ rpc = "idle"
    /\ rlist = <<>>
    /\ ridx = 0
    /\ racc = <<>>
    /\ rdata = None
    /\ resp = NoResponse
    /\ rstale = FALSE
    /\ etag_call = None
    /\ event_call = None
    /\ task_call = None
    /\ fetch_call = None

\* The event-loop thread is inside a coroutine that has not suspended.
LoopBusy ==
    sync_pc \in {"fetch", "acquire", "set_projects", "set_calendars",
                 "set_last_sync", "returned", "raised"}

\* ------------------------------------------------------------- the clock
Tick ==
    /\ now < MaxClock
    /\ now' = now + 1
    /\ UNCHANGED <<reqVars, cacheVars, cache_lock, syncVars>>
    /\ UNCHANGED callVars

\* ------------------------------------------------------------ create_app
\* Line 110: run_async(sync_all_data()) submits the coroutine and waits.
StartupSync ==
    /\ phase = "init"
    /\ phase' = "startup"
    /\ sync_pc' = "fetch"
    /\ UNCHANGED <<reqVars, cacheVars, cache_lock, now, loop_started, last_fetch,
                   fetched, new_projects, new_calendars>>
    /\ UNCHANGED callVars

\* The locals of a finished sync_all_data call are gone.
CallEnded ==
    /\ last_fetch' = "none"
    /\ fetched' = <<>>
    /\ new_projects' = EmptyDict
    /\ new_calendars' = EmptyDict

\* Lines 111-112: the initial sync returned; start_background_sync schedules
\* sync_loop on the event loop, and create_app goes on to serve.
StartupReturned ==
    /\ phase = "startup"
    /\ sync_pc = "returned"
    /\ phase' = "serving"
    /\ loop_started' = TRUE
    /\ sync_pc' = "scheduled"
    /\ CallEnded
    /\ UNCHANGED <<reqVars, cacheVars, cache_lock, now>>
    /\ UNCHANGED callVars

\* Lines 113-114: the initial sync raised; the except clause logs, and
\* start_background_sync is skipped.
StartupExcept ==
    /\ phase = "startup"
    /\ sync_pc = "raised"
    /\ phase' = "serving"
    /\ loop_started' = FALSE
    /\ sync_pc' = "none"
    /\ CallEnded
    /\ UNCHANGED <<reqVars, cacheVars, cache_lock, now>>
    /\ UNCHANGED callVars

\* -------------------------------------------------------------- sync_loop
\* A loop whose iteration does not wait for the call in progress to end.
LoopIterateOverlapping ==
    /\ loop_started
    /\ sync_pc # "fetch"
    /\ sync_pc' = "fetch"
    /\ UNCHANGED <<reqVars, cacheVars, cache_lock, now, phase, loop_started,
                   last_fetch, fetched, new_projects, new_calendars>>
    /\ UNCHANGED callVars

\* Line 100: an iteration of the while loop calls sync_all_data.
LoopIterate ==
    /\ loop_started
    /\ sync_pc \in {"scheduled", "sleep_interval", "sleep_retry"}
    /\ sync_pc' = "fetch"
    /\ UNCHANGED <<reqVars, cacheVars, cache_lock, now, phase, loop_started,
                   last_fetch, fetched, new_projects, new_calendars>>
    /\ UNCHANGED callVars

\* Line 101: after a sync that returned, sleep interval_seconds.
LoopSleep ==
    /\ loop_started
    /\ sync_pc = "returned"
    /\ sync_pc' = "sleep_interval"
    /\ CallEnded
    /\ UNCHANGED <<reqVars, cacheVars, cache_lock, now, phase, loop_started>>
    /\ UNCHANGED callVars

\* Lines 102-104: after a sync that raised, log and sleep retry_delay_seconds.
LoopExcept ==
    /\ loop_started
    /\ sync_pc = "raised"
    /\ sync_pc' = "sleep_retry"
    /\ CallEnded
    /\ UNCHANGED <<reqVars, cacheVars, cache_lock, now, phase, loop_started>>
    /\ UNCHANGED callVars

\* ---------------------------------------------------------- sync_all_data
\* An except clause that resets the cache before raising.
OnFetchErrorClearsCache ==
    /\ sync_pc' = "raised"
    /\ projects_cache' = EmptyDict
    /\ calendars_cache' = EmptyDict
    /\ last_sync' = None

\* Lines 74-76: what the except clause of sync_all_data does with the
\* exception of a failed fetch: it logs, and raises it again.
OnFetchError ==
    /\ sync_pc' = "raised"
    /\ UNCHANGED cacheVars

\* Line 38 with get_all_projects lines 101-104, 186-188: the request fails
\* (connection error, timeout, HTTP error status, undecodable body); the
\* exception leaves get_all_projects and reaches sync_all_data's except clause.
FetchRaises ==
    /\ sync_pc = "fetch"
    /\ last_fetch' = "raised"
    /\ OnFetchError
    /\ UNCHANGED <<reqVars, cache_lock, now, phase, loop_started, fetched,
                   new_projects, new_calendars>>
    /\ UNCHANGED callVars

\* Lines 38-64: the upstream answers with a body; the new maps are built.
FetchReturns(body) ==
    /\ sync_pc = "fetch"
    /\ last_fetch' = (IF ~body.code \/ ~body.has_data THEN "error_body" ELSE "data")
    /\ fetched' = kodbox_get_all_projects(body)
    /\ new_projects' = BuildProjects(fetched', EmptyDict)
    /\ new_calendars' = BuildCalendars(fetched', EmptyDict)
    /\ sync_pc' = "acquire"
    /\ UNCHANGED <<reqVars, cacheVars, cache_lock, now, phase, loop_started>>
    /\ UNCHANGED callVars

\* A swap that starts without taking the lock.
CommitAcquireNoLock ==
    /\ sync_pc = "acquire"
    /\ cache_lock = "free"
    /\ sync_pc' = "set_projects"
    /\ UNCHANGED <<reqVars, cacheVars, cache_lock, now, phase, loop_started,
                   last_fetch, fetched, new_projects, new_calendars>>
    /\ UNCHANGED callVars

\* Line 67: with self._cache_lock.
CommitAcquire ==
    /\ sync_pc = "acquire"
    /\ cache_lock = "free"
    /\ cache_lock' = "sync"
    /\ sync_pc' = "set_projects"
    /\ UNCHANGED <<reqVars, cacheVars, now, phase, loop_started, last_fetch,
                   fetched, new_projects, new_calendars>>
    /\ UNCHANGED callVars

\* Line 68.
CommitProjects ==
    /\ sync_pc = "set_projects"
    /\ projects_cache' = new_projects
    /\ sync_pc' = "set_calendars"
    /\ rstale' = (rpc # "idle")
    /\ UNCHANGED <<req, rpc, rlist, ridx, racc, rdata, resp, calendars_cache, last_sync,
                   cache_lock, now, phase, loop_started, last_fetch, fetched,
                   new_projects, new_calendars>>
    /\ UNCHANGED callVars

\* A swap that keeps the cached text of a project the new map has no text for.
CommitCalendarsKeepsOld ==
    /\ sync_pc = "set_calendars"
    /\ calendars_cache' =
          [pid \in (DOMAIN new_calendars)
                   \cup ((DOMAIN calendars_cache) \cap (DOMAIN new_projects)) |->
              IF pid \in DOMAIN new_calendars THEN new_calendars[pid]
              ELSE calendars_cache[pid]]
    /\ sync_pc' = "set_last_sync"
    /\ rstale' = (rpc # "idle")
    /\ UNCHANGED <<req, rpc, rlist, ridx, racc, rdata, resp, projects_cache, last_sync,
                   cache_lock, now, phase, loop_started, last_fetch, fetched,
                   new_projects, new_calendars>>
    /\ UNCHANGED callVars

\* Line 69.
CommitCalendars ==
    /\ sync_pc = "set_calendars"
    /\ calendars_cache' = new_calendars
    /\ sync_pc' = "set_last_sync"
    /\ rstale' = (rpc # "idle")
    /\ UNCHANGED <<req, rpc, rlist, ridx, racc, rdata, resp, projects_cache, last_sync,
                   cache_lock, now, phase, loop_started, last_fetch, fetched,
                   new_projects, new_calendars>>
    /\ UNCHANGED callVars

\* Line 70 and the end of the with block: the lock is released and
\* sync_all_data returns.
CommitLastSync ==
    /\ sync_pc = "set_last_sync"
    /\ last_sync' = Some(now)
    /\ cache_lock' = "free"
    /\ sync_pc' = "returned"
    /\ rstale' = (rpc # "idle")
    /\ UNCHANGED <<req, rpc, rlist, ridx, racc, rdata, resp, projects_cache,
                   calendars_cache, now, phase, loop_started, last_fetch, fetched,
                   new_projects, new_calendars>>
    /\ UNCHANGED callVars

\* ------------------------------------------------- DataSyncService readers
\* Each takes the cache lock for its one read of the cache.
get_project(project_id) ==
    IF project_id \in DOMAIN projects_cache
    THEN Some(projects_cache[project_id]) ELSE None

get_all_projects ==
    SelectSeq([i \in 1..Len(PidOrder) |-> PidOrder[i]],
              LAMBDA pid : pid \in DOMAIN projects_cache)

\* is_cache_fresh, with max_age and the clock in the same unit.
MaxAge == 1
is_cache_fresh(max_age) ==
    IF ~IsSome(last_sync) THEN FALSE ELSE now - Val(last_sync) < max_age

get_project_calendar(project_id) ==
    IF project_id \in DOMAIN calendars_cache
    THEN Some(calendars_cache[project_id]) ELSE None

get_project_tasks(project_id) ==
    LET project == get_project(project_id)
    IN  IF IsSome(project) THEN Val(project).tasks ELSE <<>>

FirstTask(tasks, task_id) ==
    LET hits == SelectSeq(tasks, LAMBDA t : t.id = task_id)
    IN  IF hits = <<>> THEN None ELSE Some(Head(hits))

get_task(project_id, task_id) ==
    LET project == get_project(project_id)
    IN  IF IsSome(project) THEN FirstTask(Val(project).tasks, task_id) ELSE None

\* ---------------------------------------------------------- CalDAVService
\* A listing that stops after the first project.
get_calendars_first_only ==
    IF get_all_projects = <<>> THEN <<>> ELSE <<Head(get_all_projects)>>

\* get_calendars: the ids of the Calendar objects, in cache order.
get_calendars == get_all_projects

get_calendar(calendar_id) == get_project(calendar_id)

\* A listing that leaves out the first task.
get_calendar_events_skip_first(calendar_id) ==
    IF get_project_tasks(calendar_id) = <<>> THEN <<>>
    ELSE Tail(get_project_tasks(calendar_id))

get_calendar_events(calendar_id) == get_project_tasks(calendar_id)

\* A lookup that renders an empty calendar for a cached project without text.
caldav_get_calendar_data_on_demand(calendar_id) ==
    IF IsSome(get_project_calendar(calendar_id)) THEN get_project_calendar(calendar_id)
    ELSE IF IsSome(get_project(calendar_id))
    THEN Some([calname |-> calendar_id, events |-> <<>>])
    ELSE None

caldav_get_calendar_data(calendar_id) == get_project_calendar(calendar_id)

get_event_data(calendar_id, event_id) ==
    LET project == get_project(calendar_id)
        task == get_task(calendar_id, event_id)
    IN  IF ~IsSome(project) \/ ~IsSome(task) THEN None
        ELSE Some(get_task_calendar_data(Val(task), Val(project)))

Max(a, b) == IF a >= b THEN a ELSE b

Timestamp(o) == IF IsSome(o) THEN Val(o) ELSE 0

RECURSIVE LatestTimestamp(_, _)
LatestTimestamp(tasks, latest) ==
    IF tasks = <<>> THEN latest
    ELSE LatestTimestamp(Tail(tasks), Max(latest, Timestamp(Head(tasks).modified_at)))

\* An etag in units of two seconds.
EventEtagCoarse(task) ==
    IF IsSome(task) /\ IsSome(Val(task).modified_at)
    THEN Val(Val(task).modified_at) \div 2 ELSE 0

\* The ETag of one task as an integer (the text between the quotes).
EventEtag(task) ==
    IF IsSome(task) /\ IsSome(Val(task).modified_at)
    THEN Val(Val(task).modified_at) ELSE 0

\* A ctag that looks at the tasks alone.
CalendarCtagTasksOnly(project, t) ==
    IF IsSome(project)
    THEN LET latest == LatestTimestamp(Val(project).tasks, 0)
         IN  IF latest > 0 THEN latest ELSE t
    ELSE 0

\* The CTag of a project read at instant t.
CalendarCtag(project, t) ==
    IF IsSome(project)
    THEN LET latest == LatestTimestamp(Val(project).tasks,
                                       Max(0, Timestamp(Val(project).modified_at)))
         IN  IF latest > 0 THEN latest ELSE t
    ELSE 0

\* Line 186: "if event_id" is false for None and for the empty string.
get_etag(calendar_id, event_id) ==
    IF IsSome(event_id) /\ Val(event_id) # ""
    THEN EventEtag(get_task(calendar_id, Val(event_id)))
    ELSE CalendarCtag(get_project(calendar_id), now)

\* ---------------------------------------------------------------- handlers
PlainCollection(href) == create_propfind_response(href, None, None)

\* The response of a handler that reads no cache, and <<>> for the others.
propfind_root(depth) ==
    <<PlainCollection(RootPath)>>
    \o (IF DepthPositive(depth) THEN <<PlainCollection(CalendarsPath)>> ELSE <<>>)

propfind_principals(depth) ==
    <<PlainCollection(PrincipalsPath)>>
    \o (IF DepthPositive(depth)
        THEN <<PlainCollection(PrincipalPath(ConfigUsername))>> ELSE <<>>)

propfind_user_principal == <<PlainCollection(PrincipalPath(ConfigUsername))>>

\* What the worker thread does with a request up to its first use of the
\* event loop: the route's handler behind requires_auth.
\* Yields <<rpc, racc, resp>>.
Dispatch(r) ==
    LET depth == parse_depth_header(r.depth)
    IN  IF r.route \notin OpenRoutes /\ ~Authorized(r)
        THEN <<"done", <<>>, authenticate>>
        ELSE CASE r.route = "options" -> <<"done", <<>>, StatusOnly(200)>>
               [] r.route = "health" ->
                    <<"done", <<>>, Response(200, FALSE, <<>>, last_sync, None)>>
               [] r.route = "root" ->
                    <<"done", <<>>, create_xml_response(propfind_root(depth))>>
               [] r.route = "principals" ->
                    <<"done", <<>>, create_xml_response(propfind_principals(depth))>>
               [] r.route = "principal" ->
                    <<"done", <<>>, create_xml_response(propfind_user_principal)>>
               [] r.route = "calendars" ->
                    IF DepthPositive(depth)
                    THEN <<"calendars_list", <<PlainCollection(CalendarsPath)>>, NoResponse>>
                    ELSE <<"done", <<>>,
                           create_xml_response(<<PlainCollection(CalendarsPath)>>)>>
               [] r.route = "calendar" -> <<"calendar_lookup", <<>>, NoResponse>>
               [] r.route = "report" -> <<"report_lookup", <<>>, NoResponse>>
               [] r.route = "event" -> <<"event_data", <<>>, NoResponse>>
               [] r.route = "full_calendar" -> <<"full_data", <<>>, NoResponse>>

\* A request arrives; Flask serves only after create_app has returned.
Receive(r) ==
    /\ phase = "serving"
    /\ rpc = "idle"
    /\ req' = r
    /\ rpc' = Dispatch(r)[1]
    /\ racc' = Dispatch(r)[2]
    /\ resp' = Dispatch(r)[3]
    /\ rlist' = <<>>
    /\ ridx' = 0
    /\ rdata' = None
    /\ rstale' = FALSE
    /\ UNCHANGED <<cacheVars, cache_lock, now, syncVars>>
    /\ UNCHANGED callVars

\* The response has been sent; the worker thread takes the next request.
ResponseSent ==
    /\ rpc = "done"
    /\ req' = NoRequest
    /\ rpc' = "idle"
    /\ rlist' = <<>>
    /\ ridx' = 0
    /\ racc' = <<>>
    /\ rdata' = None
    /\ resp' = NoResponse
    /\ rstale' = FALSE
    /\ UNCHANGED <<cacheVars, cache_lock, now, syncVars>>
    /\ UNCHANGED callVars

\* propfind_calendars line 100: run_async(get_calendars()).
RunGetCalendars ==
    /\ rpc = "calendars_list"
    /\ ~LoopBusy
    /\ rlist' = get_calendars
    /\ IF rlist' = <<>>
       THEN rpc' = "done" /\ resp' = create_xml_response(racc)
       ELSE rpc' = "calendars_ctag" /\ resp' = resp
    /\ UNCHANGED <<cacheVars, cache_lock, now, syncVars, ridx, req, racc, rdata, rstale>>
    /\ UNCHANGED callVars

\* propfind_calendars lines 102-122, one calendar of the loop: get_etag is
\* called on the worker thread.
CalendarsCtag ==
    /\ rpc = "calendars_ctag"
    /\ cache_lock = "free"
    /\ LET cid == rlist[Len(racc)]
           el == create_propfind_response(CalendarPath(cid), Some(get_etag(cid, None)), None)
       IN  /\ racc' = Append(racc, el)
           /\ IF Len(racc') > Len(rlist)
              THEN rpc' = "done" /\ resp' = create_xml_response(racc')
              ELSE rpc' = rpc /\ resp' = resp
    /\ UNCHANGED <<cacheVars, cache_lock, now, syncVars, ridx, req, rlist, rdata, rstale>>
    /\ UNCHANGED callVars

\* propfind_calendar lines 132-134: run_async(get_calendar(project_id)).
RunGetCalendar ==
    /\ rpc = "calendar_lookup"
    /\ ~LoopBusy
    /\ IF IsSome(get_calendar(req.project_id))
       THEN rpc' = "calendar_ctag" /\ resp' = resp
       ELSE rpc' = "done" /\ resp' = StatusOnly(404)
    /\ UNCHANGED <<cacheVars, cache_lock, now, syncVars, ridx, req, rlist, racc, rdata, rstale>>
    /\ UNCHANGED callVars

\* propfind_calendar lines 149-161: the collection's own response.
CalendarOwnCtag ==
    /\ rpc = "calendar_ctag"
    /\ cache_lock = "free"
    /\ racc' = <<create_propfind_response(CalendarPath(req.project_id),
                                          Some(get_etag(req.project_id, None)), None)>>
    /\ IF DepthPositive(parse_depth_header(req.depth))
       THEN rpc' = "calendar_events" /\ resp' = resp
       ELSE rpc' = "done" /\ resp' = create_xml_response(racc')
    /\ UNCHANGED <<cacheVars, cache_lock, now, syncVars, ridx, req, rlist, rdata, rstale>>
    /\ UNCHANGED callVars

\* propfind_calendar line 162: run_async(get_calendar_events(project_id)).
RunGetCalendarEvents ==
    /\ rpc = "calendar_events"
    /\ ~LoopBusy
    /\ rlist' = get_calendar_events(req.project_id)
    /\ IF rlist' = <<>>
       THEN rpc' = "done" /\ resp' = create_xml_response(racc)
       ELSE rpc' = "calendar_event_etag" /\ resp' = resp
    /\ UNCHANGED <<cacheVars, cache_lock, now, syncVars, ridx, req, racc, rdata, rstale>>
    /\ UNCHANGED callVars

\* propfind_calendar lines 164-172, one event of the loop.
CalendarEventEtag ==
    /\ rpc = "calendar_event_etag"
    /\ cache_lock = "free"
    /\ LET event == rlist[Len(racc)]
           el == create_propfind_response(EventPath(req.project_id, event.id),
                                          Some(get_etag(req.project_id, Some(event.id))),
                                          None)
       IN  /\ racc' = Append(racc, el)
           /\ IF Len(racc') > Len(rlist)
              THEN rpc' = "done" /\ resp' = create_xml_response(racc')
              ELSE rpc' = rpc /\ resp' = resp
    /\ UNCHANGED <<cacheVars, cache_lock, now, syncVars, ridx, req, rlist, rdata, rstale>>
    /\ UNCHANGED callVars

\* get_calendar_event lines 244-247: run_async(get_event_data(...)).
RunGetEventData ==
    /\ rpc = "event_data"
    /\ ~LoopBusy
    /\ rdata' = get_event_data(req.project_id, req.task_id)
    /\ IF IsSome(rdata')
       THEN rpc' = "event_etag" /\ resp' = resp
       ELSE rpc' = "done" /\ resp' = StatusOnly(404)
    /\ UNCHANGED <<cacheVars, cache_lock, now, syncVars, ridx, req, rlist, racc, rstale>>
    /\ UNCHANGED callVars

\* get_calendar_event lines 249-256.
EventResponse ==
    /\ rpc = "event_etag"
    /\ cache_lock = "free"
    /\ resp' = Response(200, FALSE, <<>>, rdata,
                        Some(get_etag(req.project_id, Some(req.task_id))))
    /\ rpc' = "done"
    /\ UNCHANGED <<cacheVars, cache_lock, now, syncVars, ridx, req, rlist, racc, rdata, rstale>>
    /\ UNCHANGED callVars

\* get_full_calendar lines 262-265: run_async(get_calendar_data(project_id)).
RunGetCalendarData ==
    /\ rpc = "full_data"
    /\ ~LoopBusy
    /\ rdata' = caldav_get_calendar_data(req.project_id)
    /\ IF IsSome(rdata')
       THEN rpc' = "full_etag" /\ resp' = resp
       ELSE rpc' = "done" /\ resp' = StatusOnly(404)
    /\ UNCHANGED <<cacheVars, cache_lock, now, syncVars, ridx, req, rlist, racc, rstale>>
    /\ UNCHANGED callVars

\* get_full_calendar lines 267-274.
FullCalendarResponse ==
    /\ rpc = "full_etag"
    /\ cache_lock = "free"
    /\ resp' = Response(200, FALSE, <<>>, rdata, Some(get_etag(req.project_id, None)))
    /\ rpc' = "done"
    /\ UNCHANGED <<cacheVars, cache_lock, now, syncVars, ridx, req, rlist, racc, rdata, rstale>>
    /\ UNCHANGED callVars

\* ---------------------------------------------------------- report_calendar
\* Line 204-205: href.endswith('.ics') and the task id taken from the href.
EndsWithIcs(href) == Len(href) >= 1 /\ href[Len(href)] = ".ics"
HrefTaskId(href) == IF Len(href) >= 2 THEN href[Len(href) - 1] ELSE ""

\* Where a REPORT loop goes after the entry at position i of list: the next
\* entry, or the multistatus response.
ReportAdvance(list, i, acc, more) ==
    IF i < Len(list)
    THEN rpc' = more /\ ridx' = i + 1 /\ resp' = resp
    ELSE rpc' = "done" /\ ridx' = i /\ resp' = create_xml_response(acc)

\* Lines 181-201 and 234-235: run_async(get_calendar(project_id)), then the
\* body is parsed and the report type chosen.  Only ET.ParseError is caught
\* (line 191): the ValueError or LookupError of an unsupported encoding leaves
\* the handler and Flask answers 500.
RunReportGetCalendar ==
    /\ rpc = "report_lookup"
    /\ ~LoopBusy
    /\ IF ~IsSome(get_calendar(req.project_id))
       THEN rpc' = "done" /\ resp' = StatusOnly(404) /\ rlist' = rlist /\ ridx' = ridx
       ELSE IF req.body.kind = "malformed"
       THEN rpc' = "done" /\ resp' = StatusOnly(400) /\ rlist' = rlist /\ ridx' = ridx
       ELSE IF req.body.kind = "encoding"
       THEN rpc' = "done" /\ resp' = StatusOnly(500) /\ rlist' = rlist /\ ridx' = ridx
       ELSE IF req.body.kind = "multiget"
       THEN /\ rlist' = SelectSeq(req.body.hrefs, EndsWithIcs)
            /\ IF rlist' = <<>>
               THEN rpc' = "done" /\ ridx' = ridx /\ resp' = create_xml_response(<<>>)
               ELSE rpc' = "multiget_data" /\ ridx' = 1 /\ resp' = resp
       ELSE IF req.body.kind = "query"
       THEN rpc' = "query_events" /\ resp' = resp /\ rlist' = rlist /\ ridx' = ridx
       ELSE rpc' = "done" /\ resp' = StatusOnly(400) /\ rlist' = rlist /\ ridx' = ridx
    /\ UNCHANGED <<cacheVars, cache_lock, now, syncVars, req, racc, rdata, rstale>>
    /\ UNCHANGED callVars

\* A multiget that gives up with 404 at the first href without a task.
MultigetDataStrict ==
    /\ rpc = "multiget_data"
    /\ ~LoopBusy
    /\ rdata' = get_event_data(req.project_id, HrefTaskId(rlist[ridx]))
    /\ IF IsSome(rdata')
       THEN rpc' = "multiget_etag" /\ ridx' = ridx /\ resp' = resp
       ELSE rpc' = "done" /\ ridx' = ridx /\ resp' = StatusOnly(404)
    /\ UNCHANGED <<cacheVars, cache_lock, now, syncVars, req, rlist, racc, rstale>>
    /\ UNCHANGED callVars

\* Line 206: run_async(get_event_data(project_id, task_id)) for one href.
MultigetData ==
    /\ rpc = "multiget_data"
    /\ ~LoopBusy
    /\ rdata' = get_event_data(req.project_id, HrefTaskId(rlist[ridx]))
    /\ IF IsSome(rdata')
       THEN rpc' = "multiget_etag" /\ ridx' = ridx /\ resp' = resp
       ELSE ReportAdvance(rlist, ridx, racc, "multiget_data")
    /\ UNCHANGED <<cacheVars, cache_lock, now, syncVars, req, rlist, racc, rstale>>
    /\ UNCHANGED callVars

\* Lines 208-215: the response of one href, with get_etag on the worker thread.
MultigetEtag ==
    /\ rpc = "multiget_etag"
    /\ cache_lock = "free"
    /\ racc' = Append(racc, create_propfind_response(
                   rlist[ridx],
                   Some(get_etag(req.project_id, Some(HrefTaskId(rlist[ridx])))),
                   rdata))
    /\ ReportAdvance(rlist, ridx, racc', "multiget_data")
    /\ UNCHANGED <<cacheVars, cache_lock, now, syncVars, req, rlist, rdata, rstale>>
    /\ UNCHANGED callVars

\* A calendar-query that evaluates a filter: no task matches one.
QueryEventsFiltered ==
    /\ rpc = "query_events"
    /\ ~LoopBusy
    /\ rlist' = IF req.body.filter = "none"
                THEN get_calendar_events(req.project_id) ELSE <<>>
    /\ IF rlist' = <<>>
       THEN rpc' = "done" /\ ridx' = ridx /\ resp' = create_xml_response(<<>>)
       ELSE rpc' = "query_data" /\ ridx' = 1 /\ resp' = resp
    /\ UNCHANGED <<cacheVars, cache_lock, now, syncVars, req, racc, rdata, rstale>>
    /\ UNCHANGED callVars

\* Line 219: run_async(get_calendar_events(project_id)).
QueryEvents ==
    /\ rpc = "query_events"
    /\ ~LoopBusy
    /\ rlist' = get_calendar_events(req.project_id)
    /\ IF rlist' = <<>>
       THEN rpc' = "done" /\ ridx' = ridx /\ resp' = create_xml_response(<<>>)
       ELSE rpc' = "query_data" /\ ridx' = 1 /\ resp' = resp
    /\ UNCHANGED <<cacheVars, cache_lock, now, syncVars, req, racc, rdata, rstale>>
    /\ UNCHANGED callVars

\* Line 222: run_async(get_event_data(project_id, event.id)) for one event.
QueryData ==
    /\ rpc = "query_data"
    /\ ~LoopBusy
    /\ rdata' = get_event_data(req.project_id, rlist[ridx].id)
    /\ IF IsSome(rdata')
       THEN rpc' = "query_etag" /\ ridx' = ridx /\ resp' = resp
       ELSE ReportAdvance(rlist, ridx, racc, "query_data")
    /\ UNCHANGED <<cacheVars, cache_lock, now, syncVars, req, rlist, racc, rstale>>
    /\ UNCHANGED callVars

\* Lines 224-232: the response of one event.
QueryEtag ==
    /\ rpc = "query_etag"
    /\ cache_lock = "free"
    /\ racc' = Append(racc, create_propfind_response(
                   EventPath(req.project_id, rlist[ridx].id),
                   Some(get_etag(req.project_id, Some(rlist[ridx].id))),
                   rdata))
    /\ ReportAdvance(rlist, ridx, racc', "query_data")
    /\ UNCHANGED <<cacheVars, cache_lock, now, syncVars, req, rlist, rdata, rstale>>
    /\ UNCHANGED callVars

\* ------------------------------------------------------- specifications
\* The steps of create_app's startup, of sync_loop and of sync_all_data.
SyncStep ==
    \/ StartupSync
    \/ StartupReturned
    \/ StartupExcept
    \/ LoopIterate
    \/ LoopSleep
    \/ LoopExcept
    \/ FetchRaises
    \/ CommitAcquire
    \/ CommitProjects
    \/ CommitCalendars
    \/ CommitLastSync

HandlerStep ==
    \/ ResponseSent
    \/ RunGetCalendars
    \/ CalendarsCtag
    \/ RunGetCalendar
    \/ CalendarOwnCtag
    \/ RunGetCalendarEvents
    \/ CalendarEventEtag
    \/ RunGetEventData
    \/ EventResponse
    \/ RunGetCalendarData
    \/ FullCalendarResponse

\* The refresh machinery alone, against every upstream answer, with the
\* clock.
NextSync ==
    \/ Tick
    \/ SyncStep
    \/ \E body \in UpstreamBodies : FetchReturns(body)

SpecSync == Init /\ [][NextSync]_vars

\* The refresh machinery together with a worker thread that handles the
\* requests reading the cache: every order of their steps.  The clock stands
\* still here; the instants the program reads are in SpecSync and SpecDav.
Next ==
    \/ SyncStep
    \/ \E body \in TextBodies : FetchReturns(body)
    \/ \E r \in CacheRequests : Receive(r)
    \/ HandlerStep

Spec == Init /\ [][Next]_vars

\* The request handlers against a cache that holds the snapshot of one
\* finished refresh, or nothing when the initial sync raised.
ReportStep ==
    \/ RunReportGetCalendar
    \/ MultigetData
    \/ MultigetEtag
    \/ QueryEvents
    \/ QueryData
    \/ QueryEtag

InitDav ==
    /\ \/ \E body \in UpstreamBodies :
            /\ projects_cache = BuildProjects(kodbox_get_all_projects(body), EmptyDict)
            /\ calendars_cache = BuildCalendars(kodbox_get_all_projects(body), EmptyDict)
            /\ last_sync = Some(0)
            /\ loop_started = TRUE
            /\ sync_pc = "sleep_interval"
       \/ /\ projects_cache = EmptyDict
          /\ calendars_cache = EmptyDict
          /\ last_sync = None
          /\ loop_started = FALSE
          /\ sync_pc = "none"
    /\ cache_lock = "free"
    /\ now = 0
    /\ phase = "serving"
    /\ last_fetch = "none"
    /\ fetched = <<>>
    /\ new_projects = EmptyDict
    /\ new_calendars = EmptyDict
    /\ req = NoRequest
    /\ rpc = "idle"
    /\ rlist = <<>>
    /\ ridx = 0
    /\ racc = <<>>
    /\ rdata = None
    /\ resp = NoResponse
    /\ rstale = FALSE
    /\ etag_call = None
    /\ event_call = None
    /\ task_call = None
    /\ fetch_call = None

NextDav ==
    \/ Tick
    \/ \E r \in Requests : Receive(r)
    \/ HandlerStep
    \/ ReportStep

SpecDav == InitDav /\ [][NextDav]_vars

\* The refresh machinery under the scheduling the program has: the event loop
\* runs a coroutine that is ready, a sleep ends, the upstream call returns or
\* raises (session.post has a timeout), a free lock is acquired.
FairSync ==
    /\ Init
    /\ [][NextSync]_vars
    /\ WF_vars(StartupSync)
    /\ WF_vars(StartupReturned)
    /\ WF_vars(StartupExcept)
    /\ WF_vars(LoopIterate)
    /\ WF_vars(LoopSleep)
    /\ WF_vars(LoopExcept)
    /\ WF_vars(FetchRaises \/ \E body \in UpstreamBodies : FetchReturns(body))
    /\ WF_vars(CommitAcquire)
    /\ WF_vars(CommitProjects)
    /\ WF_vars(CommitCalendars)
    /\ WF_vars(CommitLastSync)

\* --------------------------------------------------- get_etag called alone
\* CalDAVService.get_etag against snapshots of one project whose own and whose
\* tasks' modified_at differ from each other, and against the changes a
\* refresh can commit between two calls: a task modified, a task added.
MaxStamp == 3
Stamps == {None} \cup {Some(t) : t \in 0..MaxStamp}
EtagTaskLists ==
    UNION {{[i \in 1..n |-> Task(TaskId(i), "P1", ms[i], "str")] : ms \in [1..n -> Stamps]} :
              n \in 0..MaxTasks}
EventIds == {None, Some("")} \cup {Some(t) : t \in TIDs}

InitEtag ==
    /\ \E pm \in Stamps, ts \in EtagTaskLists :
          /\ projects_cache = BuildProjects(<<Project("P1", "str", pm, ts)>>, EmptyDict)
          /\ calendars_cache = BuildCalendars(<<Project("P1", "str", pm, ts)>>, EmptyDict)
    /\ last_sync = Some(0)
    /\ cache_lock = "free"
    /\ now = 0
    /\ phase = "serving"
    /\ loop_started = TRUE
    /\ sync_pc = "sleep_interval"
    /\ last_fetch = "none"
    /\ fetched = <<>>
    /\ new_projects = EmptyDict
    /\ new_calendars = EmptyDict
    /\ req = NoRequest
    /\ rpc = "idle"
    /\ rlist = <<>>
    /\ ridx = 0
    /\ racc = <<>>
    /\ rdata = None
    /\ resp = NoResponse
    /\ rstale = FALSE
    /\ etag_call = None
    /\ event_call = None
    /\ task_call = None
    /\ fetch_call = None

\* One call of get_etag; the record keeps the instant of the call.
GetEtag(calendar_id, event_id) ==
    /\ cache_lock = "free"
    /\ etag_call' = Some([calendar_id |-> calendar_id, event_id |-> event_id,
                          etag |-> get_etag(calendar_id, event_id), at |-> now])
    /\ UNCHANGED <<cacheVars, cache_lock, now, syncVars, reqVars, event_call,
                   task_call, fetch_call>>

\* The cache after a refresh whose only difference is the list of tasks of
\* project pid; the record of a call on the replaced snapshot is dropped.
WithTasks(pid, tasks) ==
    /\ projects_cache' =
          DictSet(projects_cache, pid, [projects_cache[pid] EXCEPT !.tasks = tasks])
    /\ calendars_cache' =
          StoreCalendar(calendars_cache, [projects_cache[pid] EXCEPT !.tasks = tasks])
    /\ last_sync' = Some(now)
    /\ etag_call' = None
    /\ UNCHANGED <<cache_lock, now, syncVars, reqVars, event_call,
                   task_call, fetch_call>>

\* A refresh commits a snapshot in which task i of P1 has another modifyTime.
TaskModified(i, m) ==
    /\ i \in 1..Len(projects_cache["P1"].tasks)
    /\ m # projects_cache["P1"].tasks[i].modified_at
    /\ WithTasks("P1", [projects_cache["P1"].tasks EXCEPT ![i].modified_at = m])

\* A refresh commits a snapshot in which P1 has one more task.
TaskAdded(m) ==
    /\ Len(projects_cache["P1"].tasks) < MaxTasks
    /\ WithTasks("P1", Append(projects_cache["P1"].tasks,
                              Task(TaskId(Len(projects_cache["P1"].tasks) + 1), "P1", m, "str")))

NextEtag ==
    \/ Tick
    \/ \E cid \in PIDs, eid \in EventIds : GetEtag(cid, eid)
    \/ \E i \in 1..MaxTasks, m \in Stamps : TaskModified(i, m)
    \/ \E m \in Stamps : TaskAdded(m)

SpecEtag == InitEtag /\ [][NextEtag]_vars

\* ------------------------------------------ _create_event_from_task alone
\* The repository holds two CalendarRepository classes: the one of the package
\* infrastructure (infrastructure/__init__.py), which create_app imports and
\* instantiates, and the one of the module infrastructure.repositories.  Both
\* event builders are applied to every task below, one call per behaviour.
\*
\* A datetime is its wall-clock reading, in hours since 1970-01-01 00:00, and
\* its UTC offset in hours; the instant it denotes is wall - utcoffset.
MaxHour == 23
HoursPerDay == 24
ChinaOffset == 8

DateTime(wall, off) == [wall |-> wall, utcoffset |-> off]
astimezone(dt, off) == DateTime(dt.wall - dt.utcoffset + off, off)
replace_tzinfo(dt, off) == DateTime(dt.wall, off)
date(dt) == dt.wall \div HoursPerDay
vDate(day) == [value |-> "DATE", day |-> day]
vDatetime(dt) == [value |-> "DATE-TIME", wall |-> dt.wall, utcoffset |-> dt.utcoffset]

\* Task.start_time / end_time as from_kodbox_data builds them: aware, in UTC.
EventTimes == {None} \cup {Some(DateTime(h, 0)) : h \in 0..MaxHour}
Priorities == {"very-low", "low", "normal", "hight", "very-hight"}
OptPriorities == {None} \cup {Some(p) : p \in Priorities}
EventTasks ==
    [start_time : EventTimes, end_time : EventTimes, priority : OptPriorities,
     description : DescKinds]

\* The properties of a VEVENT the builders set depending on the task's times
\* and priority; common stands for the three lines CLASS:PUBLIC,
\* STATUS:CONFIRMED, SEQUENCE:0 that the builders add together.
Event(dtstart, dtend, transp, common, alarms) ==
    [dtstart |-> dtstart, dtend |-> dtend, transp |-> transp,
     class |-> IF common THEN Some("PUBLIC") ELSE None,
     status |-> IF common THEN Some("CONFIRMED") ELSE None,
     sequence |-> IF common THEN Some(0) ELSE None,
     alarms |-> alarms]

OneTimeOnly(task) == IsSome(task.start_time) # IsSome(task.end_time)
BothTimes(task) == IsSome(task.start_time) /\ IsSome(task.end_time)
start_or_end(task) ==
    IF IsSome(task.start_time) THEN Val(task.start_time) ELSE Val(task.end_time)

\* infrastructure/__init__.py, CalendarRepository._create_event_from_task:
\* the date of an all-day event is taken from the UTC datetime, the times of
\* a timed event are relabelled with the UTC+8 zone, no alarm is added.
init_create_event_from_task(task) ==
    IF task.description # "str" THEN None
    ELSE IF OneTimeOnly(task)
    THEN LET event_date == date(start_or_end(task))
         IN  Some(Event(Some(vDate(event_date)), Some(vDate(event_date + 1)),
                        Some("TRANSPARENT"), TRUE, <<>>))
    ELSE IF BothTimes(task)
    THEN Some(Event(Some(vDatetime(replace_tzinfo(Val(task.start_time), ChinaOffset))),
                    Some(vDatetime(replace_tzinfo(Val(task.end_time), ChinaOffset))),
                    Some("OPAQUE"), TRUE, <<>>))
    ELSE Some(Event(None, None, None, FALSE, <<>>))

\* infrastructure/repositories.py, CalendarRepository._add_alarms_to_event.
reminder_minutes(priority) ==
    IF IsSome(priority)
    THEN IF Val(priority) \in {"very-hight", "hight"} THEN <<0, 15, 60, 1440>>
         ELSE IF Val(priority) = "normal" THEN <<15, 60>>
         ELSE IF Val(priority) \in {"low", "very-low"} THEN <<60>>
         ELSE <<>>
    ELSE <<15>>

add_alarms_to_event(task) ==
    IF IsSome(task.start_time)
    THEN [i \in 1..Len(reminder_minutes(task.priority)) |->
             [action |-> IF IsSome(task.priority)
                            /\ Val(task.priority) \in {"very-hight", "hight"}
                         THEN "AUDIO" ELSE "DISPLAY",
              minutes_before |-> reminder_minutes(task.priority)[i]]]
    ELSE <<>>

\* infrastructure/repositories.py, CalendarRepository._create_event_from_task:
\* every time is converted to UTC+8 first, alarms are added last.
repositories_create_event_from_task(task) ==
    IF task.description # "str" THEN None
    ELSE IF OneTimeOnly(task)
    THEN LET event_date == date(astimezone(start_or_end(task), ChinaOffset))
         IN  Some(Event(Some(vDate(event_date)), Some(vDate(event_date + 1)),
                        Some("TRANSPARENT"), TRUE, add_alarms_to_event(task)))
    ELSE IF BothTimes(task)
    THEN Some(Event(Some(vDatetime(astimezone(Val(task.start_time), ChinaOffset))),
                    Some(vDatetime(astimezone(Val(task.end_time), ChinaOffset))),
                    Some("OPAQUE"), TRUE, add_alarms_to_event(task)))
    ELSE Some(Event(None, None, None, FALSE, add_alarms_to_event(task)))

InitEvent ==
    /\ projects_cache = EmptyDict
    /\ calendars_cache = EmptyDict
    /\ last_sync = None
    /\ cache_lock = "free"
    /\ now = 0
    /\ phase = "serving"
    /\ loop_started = FALSE
    /\ sync_pc = "none"
    /\ last_fetch = "none"
    /\ fetched = <<>>
    /\ new_projects = EmptyDict
    /\ new_calendars = EmptyDict
    /\ req = NoRequest
    /\ rpc = "idle"
    /\ rlist = <<>>
    /\ ridx = 0
    /\ racc = <<>>
    /\ rdata = None
    /\ resp = NoResponse
    /\ rstale = FALSE
    /\ etag_call = None
    /\ event_call = None
    /\ task_call = None
    /\ fetch_call = None

\* The event builder of the package infrastructure is applied to a task.
CreateEvent(task) ==
    /\ event_call = None
    /\ event_call' = Some([module |-> "infrastructure", task |-> task,
                           event |-> init_create_event_from_task(task)])
    /\ UNCHANGED <<cacheVars, cache_lock, now, syncVars, reqVars, etag_call,
                   task_call, fetch_call>>

\* The event builder of infrastructure.repositories is applied to a task.
CreateEventRepositories(task) ==
    /\ event_call = None
    /\ event_call' = Some([module |-> "infrastructure.repositories", task |-> task,
                           event |-> repositories_create_event_from_task(task)])
    /\ UNCHANGED <<cacheVars, cache_lock, now, syncVars, reqVars, etag_call,
                   task_call, fetch_call>>

NextEvent ==
    \/ \E task \in EventTasks : CreateEvent(task)
    \/ \E task \in EventTasks : CreateEventRepositories(task)

SpecEvent == InitEvent /\ [][NextEvent]_vars

\* ------------------------------------------------ Task.from_kodbox_data alone
\* What the upstream JSON can hold in a timestamp field (timeFrom, timeTo,
\* createTime): nothing, the JSON number 0, a text that is no integer, the
\* digits of n seconds, digits beyond year 9999 (fromtimestamp raises
\* ValueError), digits beyond the platform's time_t (fromtimestamp raises
\* OverflowError).
MaxSeconds == 1
\* What it can hold in status: nothing, a text with the digit of a code, the
\* code as a JSON number, a JSON array.
MaxStatusCode == 4
KodboxData ==
    LET StampFields ==
            {[kind |-> k, n |-> 0] :
                k \in {"absent", "zero_number", "text", "year_out_of_range",
                       "time_t_out_of_range"}}
            \cup {[kind |-> "seconds", n |-> n] : n \in 0..MaxSeconds}
        StatusFields ==
            {[type |-> "absent", code |-> 0], [type |-> "list", code |-> 0]}
            \cup {[type |-> t, code |-> c] : t \in {"str", "int"}, c \in 0..MaxStatusCode}
    IN  [timeFrom : StampFields, timeTo : StampFields, createTime : StampFields,
         status : StatusFields]

\* Lines 70-96, one field: "if field:" and int / fromtimestamp under
\* except (ValueError, TypeError).  Yields the datetime, or that an exception
\* left the try.
parse_timestamp(field) ==
    IF field.kind = "seconds" THEN [raised |-> FALSE, value |-> Some(field.n)]
    ELSE IF field.kind = "time_t_out_of_range" THEN [raised |-> TRUE, value |-> None]
    ELSE [raised |-> FALSE, value |-> None]

\* Lines 106-111: the dictionary status_mapping, keyed by the texts '0'..'3'.
status_mapping(code) ==
    IF code = 0 THEN Some("ready")
    ELSE IF code = 1 THEN Some("finished")
    ELSE IF code = 2 THEN Some("doing")
    ELSE IF code = 3 THEN Some("closed")
    ELSE None

\* Lines 102-113: "if task_status:" is false for a missing status and for the
\* number 0; a number is no key of the dictionary; a list cannot be hashed
\* and status_mapping.get raises TypeError.
parse_status(field) ==
    IF field.type = "list" THEN [raised |-> TRUE, value |-> None]
    ELSE IF field.type = "str" THEN [raised |-> FALSE, value |-> status_mapping(field.code)]
    ELSE [raised |-> FALSE, value |-> None]

\* Task.from_kodbox_data: the task built, or that the call raised.
from_kodbox_data(data) ==
    LET start == parse_timestamp(data.timeFrom)
        end == parse_timestamp(data.timeTo)
        created == parse_timestamp(data.createTime)
        status == parse_status(data.status)
    IN  IF start.raised \/ end.raised \/ created.raised \/ status.raised
        THEN [raised |-> TRUE]
        ELSE [raised |-> FALSE,
              start_time |-> IF ~IsSome(start.value) /\ ~IsSome(end.value)
                                /\ IsSome(created.value)
                             THEN created.value ELSE start.value,
              end_time |-> end.value,
              created_at |-> created.value,
              status |-> status.value]

\* One call of Task.from_kodbox_data.
FromKodboxData(data) ==
    /\ task_call = None
    /\ task_call' = Some([data |-> data, result |-> from_kodbox_data(data)])
    /\ UNCHANGED <<cacheVars, cache_lock, now, syncVars, reqVars, etag_call,
                   event_call, fetch_call>>

NextTask == \E data \in KodboxData : FromKodboxData(data)

SpecTask == InitEvent /\ [][NextTask]_vars

\* ---------------------------------- KodBoxRepository.get_all_projects alone
\* The decoded data of one answer: the keys of data['project'] in their
\* order, and data['task'] in its order, each task with its projectID (None
\* when missing or empty) and whether Task.from_kodbox_data builds it.
ApiData ==
    { [project |-> SelectSeq(PidOrder, LAMBDA pid : pid \in ps), task |-> ts] :
        ps \in SUBSET PIDs,
        ts \in UNION { [1..n -> [projectID : {None} \cup {Some(pid) : pid \in PIDs},
                                 parses : BOOLEAN]] : n \in 0..MaxTasks } }

\* A grouping that leaves out the tasks of projects the answer does not list.
RECURSIVE assign_tasks_known_only(_, _, _)
assign_tasks_known_only(projects_dict, tasks_data, i) ==
    IF i > Len(tasks_data) THEN projects_dict
    ELSE
        LET project_id == tasks_data[i].projectID
            known == \E k \in 1..Len(projects_dict) : Some(projects_dict[k].id) = project_id
        IN  IF project_id = None \/ ~known \/ ~tasks_data[i].parses
            THEN assign_tasks_known_only(projects_dict, tasks_data, i + 1)
            ELSE assign_tasks_known_only(
                     [k \in 1..Len(projects_dict) |->
                         IF Some(projects_dict[k].id) = project_id
                         THEN [projects_dict[k] EXCEPT
                                  !.tasks = Append(@, [id |-> TaskId(i),
                                                       project_id |-> Val(project_id)])]
                         ELSE projects_dict[k]],
                     tasks_data, i + 1)

\* Lines 126-148, from task i on: a task without projectID is passed over;
\* an unknown project is appended to projects_dict as a temporary project;
\* the task is appended to its project's tasks unless building it raises.
RECURSIVE assign_tasks(_, _, _)
assign_tasks(projects_dict, tasks_data, i) ==
    IF i > Len(tasks_data) THEN projects_dict
    ELSE
        LET project_id == tasks_data[i].projectID
            known == \E k \in 1..Len(projects_dict) : Some(projects_dict[k].id) = project_id
            with_project ==
                IF known THEN projects_dict
                ELSE Append(projects_dict,
                            [id |-> Val(project_id), temporary |-> TRUE, tasks |-> <<>>])
        IN  IF project_id = None
            THEN assign_tasks(projects_dict, tasks_data, i + 1)
            ELSE IF ~tasks_data[i].parses
            THEN assign_tasks(with_project, tasks_data, i + 1)
            ELSE assign_tasks(
                     [k \in 1..Len(with_project) |->
                         IF Some(with_project[k].id) = project_id
                         THEN [with_project[k] EXCEPT
                                  !.tasks = Append(@, [id |-> TaskId(i),
                                                       project_id |-> Val(project_id)])]
                         ELSE with_project[k]],
                     tasks_data, i + 1)

\* Lines 114-182 on the decoded data: projects_dict from data['project'],
\* the tasks assigned, the Project objects in the order of projects_dict.
projects_from_api_data(api_data) ==
    assign_tasks([k \in 1..Len(api_data.project) |->
                     [id |-> api_data.project[k], temporary |-> FALSE, tasks |-> <<>>]],
                 api_data.task, 1)

\* One fetch that returns a list.
GetAllProjects(api_data) ==
    /\ fetch_call = None
    /\ fetch_call' = Some([api_data |-> api_data,
                           projects |-> projects_from_api_data(api_data)])
    /\ UNCHANGED <<cacheVars, cache_lock, now, syncVars, reqVars, etag_call,
                   event_call, task_call>>

NextFetch == \E api_data \in ApiData : GetAllProjects(api_data)

SpecFetch == InitEvent /\ [][NextFetch]_vars

\* ============================================================== properties
\* C1: when the upstream fetch of a sync_all_data call raises, the call ends by
\* raising to its caller, and from the failed fetch until the caller has
\* handled the exception no step changes the project map, the calendar-text
\* map or last_sync.
C1_FetchErrorKeepsCache ==
    [][last_fetch' = "raised" => (sync_pc' = "raised" /\ UNCHANGED cacheVars)]_vars

\* A fetch raised in a refresh that follows a committed one.
C1_Witness ==
    /\ last_fetch = "raised"
    /\ sync_pc = "raised"
    /\ projects_cache # EmptyDict
    /\ calendars_cache # EmptyDict
    /\ IsSome(last_sync)

\* C2: when the upstream answers the fetch with an error response (code false
\* or no data field), no step of that refresh cycle changes the cached project
\* map or the cached calendar-text map.
C2_ErrorResponseKeepsCache ==
    [][last_fetch' = "error_body" => UNCHANGED <<projects_cache, calendars_cache>>]_vars

\* The calendar-text map is the rendering of the project map beside it.
CalendarsMatchProjects ==
    /\ DOMAIN calendars_cache \subseteq DOMAIN projects_cache
    /\ \A pid \in DOMAIN projects_cache :
          LET rendered == get_calendar_data(projects_cache[pid])
          IN  IF rendered.ok
              THEN /\ pid \in DOMAIN calendars_cache
                   /\ calendars_cache[pid] = rendered.text
              ELSE pid \notin DOMAIN calendars_cache

SwapPositions == {"set_projects", "set_calendars", "set_last_sync"}

\* A step of a handler that calls a reader of the cache.
ReaderCall ==
    /\ rpc \notin {"idle", "done"}
    /\ <<rpc, racc, rdata>>' # <<rpc, racc, rdata>>

\* C3: whenever the cache lock is free a refresh is not part-way through the
\* swap, the calendar texts are those of the project map beside them and a
\* cache that was never committed is empty; every write to the project map,
\* the calendar-text map or last_sync happens while the lock is held (so what
\* a refresh has built is not in the cache before the swap); and every reader
\* call reads while the lock is free.
C3_AtomicSwap ==
    /\ [](cache_lock = "free" =>
            /\ sync_pc \notin SwapPositions
            /\ CalendarsMatchProjects
            /\ (last_sync = None =>
                  projects_cache = EmptyDict /\ calendars_cache = EmptyDict))
    /\ [][cache_lock = "free" => UNCHANGED cacheVars]_vars
    /\ [][ReaderCall => cache_lock = "free"]_vars

\* A reader call is due while the swap has written the project map only.
C3_Witness ==
    /\ cache_lock = "sync"
    /\ sync_pc = "set_calendars"
    /\ ~CalendarsMatchProjects
    /\ rpc \in {"calendars_ctag", "calendar_ctag", "calendar_event_etag",
                "event_etag", "full_etag"}

\* What a finished refresh has committed for the projects it fetched.
Committed ==
    \A i \in 1..Len(fetched) :
        LET project == fetched[i]
            rendered == get_calendar_data(project)
        IN  /\ get_project(project.id) = Some(project)
            /\ \A j \in 1..Len(project.tasks) :
                  get_task(project.id, project.tasks[j].id) = Some(project.tasks[j])
            /\ IF rendered.ok
               THEN get_project_calendar(project.id) = Some(rendered.text)
               ELSE get_project_calendar(project.id) = None

C5_FailedAttemptRetried ==
    (sync_pc = "raised") ~> (sync_pc = "fetch")

\* C6: a request that is being handled can always take its next step,
\* whatever the refresh is doing at that moment.
C6_ReadNeverWaits ==
    (rpc \notin {"idle", "done"}) => ENABLED HandlerStep

RightCredentials(r) ==
    r.auth = Some([username |-> ConfigUsername, password |-> ConfigPassword])

\* C7: a finished PROPFIND, REPORT or GET on the CalDAV tree without the
\* configured credentials has status 401 and a WWW-Authenticate header,
\* whatever the cache holds; with the configured credentials a request for a
\* project that is not cached has status 404; OPTIONS and GET /health answer
\* 200 with any or no credentials.
C7_AuthBeforeLookup ==
    rpc = "done" =>
        /\ (req.route \notin {"options", "health"} /\ ~RightCredentials(req))
              => (resp.status = 401 /\ resp.www_authenticate)
        /\ (/\ RightCredentials(req)
            /\ req.route \in {"calendar", "report", "event", "full_calendar"}
            /\ req.project_id \notin DOMAIN projects_cache)
              => resp.status = 404
        /\ req.route \in {"options", "health"}
              => (resp.status = 200 /\ ~resp.www_authenticate)

\* A request for a cached project with a wrong password was refused.
C7_Witness ==
    /\ rpc = "done"
    /\ req.route \in {"calendar", "report", "event", "full_calendar"}
    /\ req.project_id \in DOMAIN projects_cache
    /\ req.auth = Some([username |-> ConfigUsername, password |-> "guess"])
    /\ resp.status = 401

Hrefs(elements) == {elements[i].href : i \in 1..Len(elements)}

\* C8: a finished authorized PROPFIND on /calendars/ has status 207; with
\* Depth 0 its only element is /calendars/; with Depth 1 it has that element
\* first and then exactly one element per cached project, with href
\* /calendars/{project_id}/.
C8_CalendarsListing ==
    (rpc = "done" /\ req.route = "calendars" /\ RightCredentials(req)
        /\ req.depth.kind = "int" /\ req.depth.n \in {0, 1}) =>
        /\ resp.status = 207
        /\ resp.elements[1].href = CalendarsPath
        /\ req.depth.n = 0 => Len(resp.elements) = 1
        /\ req.depth.n = 1 =>
              /\ Len(resp.elements) = 1 + Cardinality(DOMAIN projects_cache)
              /\ Hrefs(Tail(resp.elements)) =
                    {CalendarPath(pid) : pid \in DOMAIN projects_cache}

\* A Depth 1 listing of two cached projects.
C8_Witness ==
    /\ rpc = "done"
    /\ req.route = "calendars"
    /\ req.depth = [kind |-> "int", n |-> 1]
    /\ Cardinality(DOMAIN projects_cache) = 2
    /\ Len(resp.elements) = 3

DepthOneOrMore(dh) == dh.kind = "infinity" \/ (dh.kind = "int" /\ dh.n >= 1)

\* C9: a finished authorized PROPFIND on /calendars/{project_id}/ has status
\* 404 when the project is not cached; otherwise status 207 with the
\* collection's own element first, alone at Depth 0, and at Depth 1 or more
\* followed by exactly one element per task of the project, in order, with
\* href /calendars/{project_id}/{task_id}.ics and the task's etag (the
\* timestamp of its modified_at, 0 without one).
C9_CalendarListing ==
    (rpc = "done" /\ req.route = "calendar" /\ RightCredentials(req)) =>
        IF req.project_id \notin DOMAIN projects_cache
        THEN resp.status = 404
        ELSE LET tasks == projects_cache[req.project_id].tasks
             IN  /\ resp.status = 207
                 /\ resp.elements[1].href = CalendarPath(req.project_id)
                 /\ (req.depth.kind = "int" /\ req.depth.n = 0)
                       => Len(resp.elements) = 1
                 /\ DepthOneOrMore(req.depth) =>
                       /\ Len(resp.elements) = 1 + Len(tasks)
                       /\ \A i \in 1..Len(tasks) :
                             /\ resp.elements[i + 1].href =
                                   EventPath(req.project_id, tasks[i].id)
                             /\ resp.elements[i + 1].tag =
                                   Some(Timestamp(tasks[i].modified_at))

\* A Depth 1 listing of a project with two tasks.
C9_Witness ==
    /\ rpc = "done"
    /\ req.route = "calendar"
    /\ req.depth = [kind |-> "int", n |-> 1]
    /\ req.project_id \in DOMAIN projects_cache
    /\ Len(projects_cache[req.project_id].tasks) = 2
    /\ Len(resp.elements) = 3
    /\ resp.elements[3].tag = Some(1)

\* The immediate children of the collections /, /principals/ and /calendars/.
Children(route) ==
    IF route = "root" THEN {PrincipalsPath, CalendarsPath}
    ELSE IF route = "principals" THEN {PrincipalPath(ConfigUsername)}
    ELSE {CalendarPath(pid) : pid \in DOMAIN projects_cache}

TargetPath(route) ==
    IF route = "root" THEN RootPath
    ELSE IF route = "principals" THEN PrincipalsPath
    ELSE CalendarsPath

\* C10: a finished authorized PROPFIND with Depth 1 or more on /,
\* /principals/ or /calendars/ lists the target and exactly its immediate
\* children; for / these are /principals/ and /calendars/.
C10_ImmediateChildren ==
    (rpc = "done" /\ req.route \in {"root", "principals", "calendars"}
        /\ RightCredentials(req) /\ DepthOneOrMore(req.depth)) =>
        /\ resp.status = 207
        /\ Hrefs(resp.elements) = {TargetPath(req.route)} \cup Children(req.route)


\* C11: an authenticated REPORT on a calendar collection answers 404 when the
\* project is not cached, whatever the body; for a cached project it answers
\* 400 when the body is empty, is not well-formed XML or has another root
\* element, and 207 when the body is a calendar-multiget or calendar-query
\* document (in whatever encoding its declaration names).
C11_ReportStatus ==
    (rpc = "done" /\ req.route = "report" /\ RightCredentials(req)) =>
        IF req.project_id \notin DOMAIN projects_cache
        THEN resp.status = 404
        ELSE /\ req.body.kind \in {"empty", "malformed", "other"} => resp.status = 400
             /\ req.body.kind \in {"multiget", "query", "encoding"} => resp.status = 207

\* The tasks of cached project pid that have id tid (at most one).
TasksNamed(pid, tid) ==
    {projects_cache[pid].tasks[j] : j \in
        {k \in 1..Len(projects_cache[pid].tasks) : projects_cache[pid].tasks[k].id = tid}}

\* An href that ends in .ics and whose file name is the id of a task of pid.
Resolves(pid, href) ==
    /\ Len(href) >= 2
    /\ href[Len(href)] = ".ics"
    /\ TasksNamed(pid, href[Len(href) - 1]) # {}

\* The response element of task t of project pid under href.
TaskElement(pid, t, href) ==
    [href |-> href,
     tag |-> Some(IF IsSome(t.modified_at) THEN Val(t.modified_at) ELSE 0),
     data |-> Some(get_task_calendar_data(t, projects_cache[pid]))]

\* C12: a calendar-multiget REPORT on a cached calendar answers 207 with one
\* response element, carrying the href, the task's etag and the task's
\* iCalendar text, for each listed href that ends in .ics and names a task of
\* the target calendar, in the order listed, and nothing for any other href.
C12_MultigetOmitsUnresolved ==
    (/\ rpc = "done" /\ req.route = "report" /\ RightCredentials(req)
     /\ req.project_id \in DOMAIN projects_cache
     /\ req.body.kind = "multiget") =>
        LET pid == req.project_id
            found == SelectSeq(req.body.hrefs, LAMBDA h : Resolves(pid, h))
        IN  /\ resp.status = 207
            /\ resp.elements =
                  [i \in 1..Len(found) |->
                      TaskElement(pid,
                                  CHOOSE t \in TasksNamed(pid, found[i][Len(found[i]) - 1]) : TRUE,
                                  found[i])]

\* T1.ics and an href without a task, only T1 existing: one element, for T1.
C12_Witness ==
    /\ rpc = "done" /\ req.route = "report" /\ RightCredentials(req)
    /\ req.project_id = "P1" /\ "P1" \in DOMAIN projects_cache
    /\ Len(projects_cache["P1"].tasks) = 1
    /\ req.body.kind = "multiget"
    /\ req.body.hrefs = <<EventPath("P1", "T1"), EventPath("P2", "T2")>>
    /\ resp.status = 207
    /\ Len(resp.elements) = 1
    /\ resp.elements[1].href = EventPath("P1", "T1")

\* C13: a calendar-query REPORT on a cached calendar answers 207 with exactly
\* one response element per task of that project in the snapshot, in task
\* order, under the href /calendars/{project}/{task}.ics and carrying the
\* task's etag and iCalendar text, whatever filter the body contains; tasks
\* of other projects give no element.
C13_QueryReturnsEveryTask ==
    (/\ rpc = "done" /\ req.route = "report" /\ RightCredentials(req)
     /\ req.project_id \in DOMAIN projects_cache
     /\ req.body.kind = "query") =>
        LET pid == req.project_id
            tasks == projects_cache[pid].tasks
        IN  /\ resp.status = 207
            /\ resp.elements =
                  [i \in 1..Len(tasks) |->
                      TaskElement(pid, tasks[i], <<"calendars", pid, tasks[i].id, ".ics">>)]
            /\ \A i \in 1..Len(resp.elements) : resp.elements[i].href[2] = pid

\* A query with a time-range filter on a calendar of two tasks, another
\* project being cached too: two elements.
C13_Witness ==
    /\ rpc = "done" /\ req.route = "report" /\ RightCredentials(req)
    /\ req.body.kind = "query" /\ req.body.filter = "time-range"
    /\ req.project_id = "P1"
    /\ DOMAIN projects_cache = {"P1", "P2"}
    /\ Len(projects_cache["P1"].tasks) = 2
    /\ Len(resp.elements) = 2

\* C14: an authenticated GET on /calendars/{project}/{task}.ics answers 404
\* when the project or the task is not in the snapshot; otherwise it answers
\* 200 with the task's etag in the ETag header and the task's rendered text,
\* which contains the event of that task.
C14_EventGet ==
    (rpc = "done" /\ req.route = "event" /\ RightCredentials(req)) =>
        IF req.project_id \in DOMAIN projects_cache
           /\ TasksNamed(req.project_id, req.task_id) # {}
        THEN LET t == CHOOSE x \in TasksNamed(req.project_id, req.task_id) : TRUE
             IN  /\ resp.status = 200
                 /\ resp.etag = Some(IF IsSome(t.modified_at) THEN Val(t.modified_at) ELSE 0)
                 /\ IsSome(resp.body)
                 /\ \E i \in 1..Len(Val(resp.body).events) :
                       Val(resp.body).events[i].uid = req.task_id
        ELSE resp.status = 404

\* The greatest timestamp among a cached project and its tasks, 0 when none
\* has a modified_at.
GreatestStamp(pid) ==
    LET p == projects_cache[pid]
        stamps == {Val(p.modified_at) : x \in {y \in {1} : IsSome(p.modified_at)}}
                  \cup {Val(p.tasks[j].modified_at) :
                            j \in {k \in 1..Len(p.tasks) : IsSome(p.tasks[k].modified_at)}}
    IN  IF stamps = {} THEN 0 ELSE CHOOSE m \in stamps : \A x \in stamps : x <= m

\* C15: an authenticated GET on /calendars/{project}/calendar.ics answers 200
\* with the text cached for the project, which is the rendering of the
\* project as cached, and the project's ctag as ETag (where no timestamp
\* exists, an instant of the clock up to now); it answers 404 when the
\* project is not cached and when it is cached without calendar text.
C15_FullCalendarGet ==
    (rpc = "done" /\ req.route = "full_calendar" /\ RightCredentials(req)) =>
        LET pid == req.project_id
        IN  IF pid \in DOMAIN projects_cache /\ pid \in DOMAIN calendars_cache
            THEN /\ resp.status = 200
                 /\ resp.body = Some(calendars_cache[pid])
                 /\ get_calendar_data(projects_cache[pid]).ok
                 /\ resp.body = Some(get_calendar_data(projects_cache[pid]).text)
                 /\ IsSome(resp.etag)
                 /\ IF GreatestStamp(pid) > 0
                    THEN Val(resp.etag) = GreatestStamp(pid)
                    ELSE Val(resp.etag) \in 0..now
            ELSE resp.status = 404 /\ resp.body = None

\* A project is cached, its render failed in the refresh, the GET is answered.
C15_Witness ==
    /\ rpc = "done" /\ req.route = "full_calendar" /\ RightCredentials(req)
    /\ req.project_id \in DOMAIN projects_cache
    /\ req.project_id \notin DOMAIN calendars_cache
    /\ resp.status = 404

\* The stamp of the task tid of project pid in the cache: None when the
\* project, the task or its modified_at is missing.
StampOf(pid, tid) ==
    IF pid \in DOMAIN projects_cache /\ TasksNamed(pid, tid) # {}
    THEN (CHOOSE t \in TasksNamed(pid, tid) : TRUE).modified_at
    ELSE None

\* C16: the etag of an event is the integer timestamp of the task's
\* modified_at, and 0 when the task has none or does not exist; two calls
\* for the same event on an unchanged snapshot give the same value, whatever
\* the clock; when a task's modified_at moves to a later instant the etag of
\* that event becomes strictly greater.
C16_EventEtag ==
    /\ [](\A c \in {etag_call} :
            (IsSome(c) /\ IsSome(Val(c).event_id) /\ Val(Val(c).event_id) # "") =>
                LET m == StampOf(Val(c).calendar_id, Val(Val(c).event_id))
                IN  Val(c).etag = IF IsSome(m) THEN Val(m) ELSE 0)
    /\ [][/\ (/\ IsSome(etag_call) /\ IsSome(etag_call')
              /\ Val(etag_call).calendar_id = Val(etag_call').calendar_id
              /\ Val(etag_call).event_id = Val(etag_call').event_id
              /\ IsSome(Val(etag_call).event_id)
              /\ Val(Val(etag_call).event_id) # "")
                => Val(etag_call').etag = Val(etag_call).etag
          /\ \A tid \in TIDs :
                (/\ IsSome(StampOf("P1", tid)) /\ IsSome(StampOf("P1", tid)')
                 /\ Val(StampOf("P1", tid)') > Val(StampOf("P1", tid)))
                    => get_etag("P1", Some(tid))' > get_etag("P1", Some(tid))]_vars

\* The etag of an existing task was computed after the clock had moved and
\* after the task's modified_at had been moved to the latest instant.
C16_Witness ==
    /\ IsSome(etag_call)
    /\ Val(etag_call).event_id = Some("T1")
    /\ Val(etag_call).etag = MaxStamp
    /\ Val(etag_call).at > 0
    /\ last_sync = Some(1)

\* Whether the recorded call asked for the ctag of a cached project.
CtagCall ==
    /\ IsSome(etag_call)
    /\ ~IsSome(Val(etag_call).event_id)
    /\ Val(etag_call).calendar_id \in DOMAIN projects_cache

\* A step that adds to P1 a task whose modified_at is present, positive and
\* later than every modified_at of the project and its tasks.
LaterTaskAdded ==
    /\ Len(projects_cache'["P1"].tasks) = Len(projects_cache["P1"].tasks) + 1
    /\ IsSome(projects_cache'["P1"].tasks[Len(projects_cache'["P1"].tasks)].modified_at)
    /\ Val(projects_cache'["P1"].tasks[Len(projects_cache'["P1"].tasks)].modified_at)
          > GreatestStamp("P1")

EventBuilt == IsSome(event_call) /\ IsSome(Val(event_call).event)

\* The instant a DATE-TIME value denotes.
InstantOf(v) == v.wall - v.utcoffset

\* A DATE-TIME value that denotes the instant of dt and is expressed in UTC+8.
SameInstantInChina(v, dt) ==
    /\ IsSome(v)
    /\ Val(v).value = "DATE-TIME"
    /\ Val(v).utcoffset = 8
    /\ InstantOf(Val(v)) = dt.wall - dt.utcoffset

\* C18: the presence of start_time and end_time decides the kind of a built
\* event.  Exactly one present: DTSTART is the calendar date that instant has
\* in UTC+8, DTEND is the following date, TRANSP is TRANSPARENT.  Both
\* present: DTSTART and DTEND denote the two instants, expressed in UTC+8,
\* and TRANSP is OPAQUE.  Neither present: no DTSTART and no DTEND.
C18_EventKind ==
    EventBuilt =>
        LET task == Val(event_call).task
            event == Val(Val(event_call).event)
            one == IF IsSome(task.start_time) THEN Val(task.start_time)
                   ELSE Val(task.end_time)
        IN  IF IsSome(task.start_time) /\ IsSome(task.end_time)
            THEN /\ SameInstantInChina(event.dtstart, Val(task.start_time))
                 /\ SameInstantInChina(event.dtend, Val(task.end_time))
                 /\ event.transp = Some("OPAQUE")
            ELSE IF IsSome(task.start_time) \/ IsSome(task.end_time)
            THEN /\ event.dtstart =
                       Some([value |-> "DATE", day |-> (one.wall - one.utcoffset + 8) \div 24])
                 /\ event.dtend =
                       Some([value |-> "DATE", day |-> (one.wall - one.utcoffset + 8) \div 24 + 1])
                 /\ event.transp = Some("TRANSPARENT")
            ELSE event.dtstart = None /\ event.dtend = None

\* C19: every built event carries CLASS:PUBLIC, STATUS:CONFIRMED and
\* SEQUENCE:0, whichever of start_time and end_time the task has.
C19_CommonProperties ==
    EventBuilt =>
        /\ Val(Val(event_call).event).class = Some("PUBLIC")
        /\ Val(Val(event_call).event).status = Some("CONFIRMED")
        /\ Val(Val(event_call).event).sequence = Some(0)

\* C20: a built event of a task without start_time has no alarm; with a
\* start_time it has four AUDIO alarms 0, 15, 60 and 1440 minutes before
\* for priority very-hight or hight, two DISPLAY alarms 15 and 60 minutes
\* before for priority normal or no priority, one DISPLAY alarm 60 minutes
\* before for priority low or very-low.
C20_AlarmsByPriority ==
    EventBuilt =>
        LET task == Val(event_call).task
            alarms == Val(Val(event_call).event).alarms
            Alarm(a, m) == [action |-> a, minutes_before |-> m]
        IN  IF ~IsSome(task.start_time) THEN alarms = <<>>
            ELSE IF task.priority \in {Some("very-hight"), Some("hight")}
            THEN alarms = <<Alarm("AUDIO", 0), Alarm("AUDIO", 15), Alarm("AUDIO", 60),
                            Alarm("AUDIO", 1440)>>
            ELSE IF task.priority \in {Some("normal"), None}
            THEN alarms = <<Alarm("DISPLAY", 15), Alarm("DISPLAY", 60)>>
            ELSE alarms = <<Alarm("DISPLAY", 60)>>

\* C21: Task construction never raises on the status field; the codes 0, 1,
\* 2 and 3 give the statuses ready, finished, doing and closed, every other
\* or missing value leaves the status absent.
C21_StatusMapping ==
    IsSome(task_call) =>
        LET status == Val(task_call).data.status
            result == Val(task_call).result
            others == {"timeFrom", "timeTo", "createTime"}
        IN  (\A f \in others : Val(task_call).data[f].kind # "time_t_out_of_range") =>
                /\ ~result.raised
                /\ result.status =
                      IF status.type \in {"str", "int"} /\ status.code = 0 THEN Some("ready")
                      ELSE IF status.type \in {"str", "int"} /\ status.code = 1
                      THEN Some("finished")
                      ELSE IF status.type \in {"str", "int"} /\ status.code = 2
                      THEN Some("doing")
                      ELSE IF status.type \in {"str", "int"} /\ status.code = 3
                      THEN Some("closed")
                      ELSE None

\* C22: Task construction never raises on a timestamp field; a field that is
\* missing, zero or no valid number of seconds is absent; start_time is
\* created_at exactly when both bounds are absent and created_at is present;
\* otherwise start_time and end_time are the parsed bounds.
C22_StartTimeFallback ==
    IsSome(task_call) =>
        LET data == Val(task_call).data
            result == Val(task_call).result
            Parsed(f) == IF f.kind = "seconds" THEN Some(f.n) ELSE None
        IN  data.status.type # "list" =>
                /\ ~result.raised
                /\ result.end_time = Parsed(data.timeTo)
                /\ result.start_time =
                      IF Parsed(data.timeFrom) = None /\ Parsed(data.timeTo) = None
                         /\ Parsed(data.createTime) # None
                      THEN Parsed(data.createTime)
                      ELSE Parsed(data.timeFrom)

\* C23: in the list a fetch returns, every task is in the task list of the
\* project whose id is the task's project_id; every upstream task that names
\* a project and can be built is in the list; a project named by a task and
\* missing from the upstream projects is in the list as a placeholder.
C23_TasksInTheirProject ==
    IsSome(fetch_call) =>
        LET api_data == Val(fetch_call).api_data
            projects == Val(fetch_call).projects
            Listed(pid) == \E k \in 1..Len(api_data.project) : api_data.project[k] = pid
        IN  /\ \A k \in 1..Len(projects) : \A j \in 1..Len(projects[k].tasks) :
                  projects[k].tasks[j].project_id = projects[k].id
            /\ \A k, l \in 1..Len(projects) : projects[k].id = projects[l].id => k = l
            /\ \A i \in 1..Len(api_data.task) :
                  LET project_id == api_data.task[i].projectID
                  IN  IsSome(project_id) =>
                        \E k \in 1..Len(projects) :
                            /\ projects[k].id = Val(project_id)
                            /\ projects[k].temporary = ~Listed(Val(project_id))
                            /\ api_data.task[i].parses =>
                                  \E j \in 1..Len(projects[k].tasks) :
                                      projects[k].tasks[j].id = TaskId(i)

\* A fetch whose second task names a project the upstream did not list: the
\* list ends with the placeholder, which holds the task.
C23_Witness ==
    /\ IsSome(fetch_call)
    /\ Val(fetch_call).api_data.project = <<"P1">>
    /\ Len(Val(fetch_call).api_data.task) = 2
    /\ Val(fetch_call).api_data.task[1] = [projectID |-> Some("P1"), parses |-> TRUE]
    /\ Val(fetch_call).api_data.task[2] = [projectID |-> Some("P2"), parses |-> TRUE]
    /\ Val(fetch_call).projects =
          << [id |-> "P1", temporary |-> FALSE,
              tasks |-> <<[id |-> "T1", project_id |-> "P1"]>>],
             [id |-> "P2", temporary |-> TRUE,
              tasks |-> <<[id |-> "T2", project_id |-> "P2"]>>] >>

\* C24: a task whose event cannot be built is skipped by the render of its
\* project: after a refresh, the calendar text of every fetched project that
\* rendered holds exactly the events of the project's other tasks, in task
\* order, and the project has a calendar text although one event failed.
C24_FailedEventSkipped ==
    sync_pc = "returned" =>
        \A i \in 1..Len(fetched) :
            LET project == fetched[i]
                tasks == project.tasks
                built == {j \in 1..Len(tasks) : tasks[j].description = "str"}
                calendar == get_project_calendar(project.id)
            IN  project.name = "str" =>
                    /\ IsSome(calendar)
                    /\ Len(Val(calendar).events) = Cardinality(built)
                    /\ \A j \in built :
                          Val(calendar).events[Cardinality({k \in built : k <= j})] =
                              [uid |-> tasks[j].id, last_modified |-> tasks[j].modified_at]

\* A refresh returned with a project of two tasks whose first task's event
\* failed: the project's calendar text holds the second task's event alone.
C24_Witness ==
    /\ sync_pc = "returned"
    /\ \E i \in 1..Len(fetched) :
          /\ Len(fetched[i].tasks) = 2
          /\ fetched[i].tasks[1].description = "number"
          /\ IsSome(get_project_calendar(fetched[i].id))
          /\ Len(Val(get_project_calendar(fetched[i].id)).events) = 1
          /\ Val(get_project_calendar(fetched[i].id)).events[1].uid = fetched[i].tasks[2].id

\* C25: between two successive snapshots of project P1, when the set of task
\* ids differs or the etag of some task differs, the ctag of P1 differs.
C25_CtagDetectsEveryChange ==
    [][ ( \/ {projects_cache["P1"].tasks[i].id : i \in 1..Len(projects_cache["P1"].tasks)}
               # {projects_cache'["P1"].tasks[i].id : i \in 1..Len(projects_cache'["P1"].tasks)}
          \/ \E tid \in TIDs : get_etag("P1", Some(tid))' # get_etag("P1", Some(tid)) )
        => get_etag("P1", None)' # get_etag("P1", None) ]_vars

\* A finished multistatus listing of a collection, and the number of children
\* the collection has.
DepthListing ==
    /\ rpc = "done"
    /\ req.route \in {"root", "principals", "calendars", "calendar"}
    /\ resp.status = 207
AvailableChildren ==
    CASE req.route = "calendars" -> Len(get_all_projects)
      [] req.route = "calendar" -> Len(projects_cache[req.project_id].tasks)
      [] OTHER -> 1

\* C26 as stated: the parsed depth is never negative; a missing header and a
\* text that is neither an integer nor infinity give 0, infinity gives the
\* unbounded depth, and the listing holds the children exactly when the
\* parsed depth is at least 1.
C26_DepthNonNegative ==
    DepthListing =>
        LET depth == parse_depth_header(req.depth)
        IN  /\ depth.inf \/ depth.n >= 0
            /\ req.depth.kind \in {"absent", "text"} => depth = [inf |-> FALSE, n |-> 0]
            /\ req.depth.kind = "infinity" => depth.inf
            /\ Len(resp.elements) - 1 =
                  IF depth.inf \/ depth.n >= 1 THEN AvailableChildren ELSE 0

\* C26 as the code has it: an integer header is parsed to that integer, a
\* negative one included; a missing header and a text that is neither an
\* integer nor infinity give 0, infinity gives the unbounded depth, and the
\* listing holds the children exactly when the parsed depth is at least 1
\* (so a negative depth lists like depth 0).
C26_DepthParsed ==
    DepthListing =>
        LET depth == parse_depth_header(req.depth)
        IN  /\ req.depth.kind = "int" => depth = [inf |-> FALSE, n |-> req.depth.n]
            /\ req.depth.kind \in {"absent", "text"} => depth = [inf |-> FALSE, n |-> 0]
            /\ req.depth.kind = "infinity" => depth.inf
            /\ Len(resp.elements) - 1 =
                  IF req.depth.kind = "infinity"
                     \/ (req.depth.kind = "int" /\ req.depth.n >= 1)
                  THEN AvailableChildren ELSE 0

\* A listing of a project with two tasks asked with Depth: -1 holds the
\* collection alone.
C26_Witness ==
    /\ DepthListing
    /\ req.route = "calendar"
    /\ req.depth = [kind |-> "int", n |-> -1]
    /\ Len(projects_cache[req.project_id].tasks) = 2
    /\ Len(resp.elements) = 1

\* C27: the ETag of a finished GET on a task is the etag of the task version
\* whose event the body carries (the timestamp of that version's
\* modified_at), whatever refresh commits happened during the request.
C27_EtagOfDataSent ==
    (rpc = "done" /\ req.route = "event" /\ resp.status = 200) =>
        \A i \in 1..Len(Val(resp.body).events) :
            resp.etag = Some(Timestamp(Val(resp.body).events[i].last_modified))

\* C28: the cache has one writer.  The background loop is not started while
\* the startup refresh is in progress; a refresh cycle begins only when no
\* cycle is in progress; the three assignments of a commit follow each other
\* with no step of another cycle between them; and the cache changes only in
\* a step of the cycle that holds the lock.
C28_SingleWriter ==
    /\ [](phase = "startup" => ~loop_started)
    /\ [][ /\ (sync_pc' = "fetch" /\ sync_pc # "fetch") =>
                 sync_pc \in {"none", "scheduled", "sleep_interval", "sleep_retry"}
           /\ (sync_pc = "set_projects" /\ sync_pc' # sync_pc) => sync_pc' = "set_calendars"
           /\ (sync_pc = "set_calendars" /\ sync_pc' # sync_pc) => sync_pc' = "set_last_sync"
           /\ (sync_pc = "set_last_sync" /\ sync_pc' # sync_pc) => sync_pc' = "returned"
           /\ cacheVars' # cacheVars =>
                 /\ cache_lock = "sync"
                 /\ sync_pc \in {"set_projects", "set_calendars", "set_last_sync"} ]_vars

\* A cycle of the background loop in the middle of its commit, after the
\* startup refresh committed.
C28_Witness ==
    /\ loop_started
    /\ phase = "serving"
    /\ sync_pc = "set_calendars"
    /\ cache_lock = "sync"
    /\ IsSome(last_sync)
    /\ projects_cache = new_projects
    /\ calendars_cache # new_calendars

\* C29: last_sync is absent before the first refresh commits; it changes
\* only in the last step of the commit of a refresh whose fetch succeeded,
\* to the instant of that step, and never to an earlier instant;
\* is_cache_fresh is false while last_sync is absent and otherwise true
\* exactly when less than max_age has passed since last_sync.
C29_LastSyncAndFreshness ==
    /\ [](phase = "init" => last_sync = None)
    /\ [](is_cache_fresh(MaxAge) <=> (IsSome(last_sync) /\ now - Val(last_sync) < MaxAge))
    /\ [][ last_sync' # last_sync =>
             /\ sync_pc = "set_last_sync"
             /\ last_fetch = "data"
             /\ last_sync' = Some(now)
             /\ IsSome(last_sync) => Val(last_sync) <= now ]_vars

\* C30: every response element of a calendar-multiget REPORT has the href of
\* the resource whose data it carries: its href is
\* /calendars/{target}/{task}.ics for a task of the target calendar and its
\* data is that task's text, so an href naming another calendar gives no
\* element.
C30_HrefIdentifiesData ==
    (/\ rpc = "done" /\ req.route = "report" /\ RightCredentials(req)
     /\ req.project_id \in DOMAIN projects_cache
     /\ req.body.kind = "multiget" /\ resp.status = 207) =>
        \A i \in 1..Len(resp.elements) :
            \E j \in 1..Len(projects_cache[req.project_id].tasks) :
                LET t == projects_cache[req.project_id].tasks[j]
                IN  /\ resp.elements[i].href = EventPath(req.project_id, t.id)
                    /\ resp.elements[i].data =
                          Some(get_task_calendar_data(t, projects_cache[req.project_id]))

====
